---- MODULE Spec2Model ----
(***************************************************************************)
(* Fan controller for a bench power supply (firmware/main.c, ATtiny10).    *)
(*                                                                         *)
(* The firmware is one foreground loop, timed by the watchdog timer used   *)
(* in interrupt-then-reset mode, plus two empty interrupt handlers.  The   *)
(* model has one action per step of main() and one action per hardware     *)
(* event (watchdog time-out, end of an ADC conversion, reset sources).     *)
(***************************************************************************)
EXTENDS Integers, FiniteSets

(* ------------------------------ constants ------------------------------ *)

FAN_OVERRIDE_NONE == 0
FAN_OVERRIDE_ON == 1
FAN_OVERRIDE_OFF == 2

FAN_COOL_TIME == 125
TEMP_MEASURE_INTERVAL == 32

HOT_VAL == 23
COOL_VAL == 27

\* uint8_t arithmetic: every loop variable is reduced modulo 2^8
UINT8 == 256

\* the two busy-wait loops of the diagnostic blink, in steps of 100 us
DIAG_OFF_STEPS == 20000
DIAG_ON_STEPS == 5000

\* the subtraction carried out in a wider type, without the wrap to 8 bits
Sub8_Wide(a, b) == a - b

\* (uint8_t)(a - b)
Sub8(a, b) == (a - b) % UINT8

\* LAST_HOT_INIT without the + 31: no cool-down time is left at power-on
LAST_HOT_INIT_NoGrace == (0 - FAN_COOL_TIME) % UINT8

\* initial value of lastHotTime: (0 - FAN_COOL_TIME) + 31 as a uint8_t
LAST_HOT_INIT == ((0 - FAN_COOL_TIME) + 31) % UINT8

(* -------------------------------- bounds ------------------------------- *)

\* watchdog ticks counted by one boot in the specifications without stalls
MaxUptime == 300
\* watchdog ticks counted by one boot in the specification with stalls
MaxStallUptime == 34
\* watchdog ticks counted in the specification with fairness
MaxFairUptime == 70

\* ADC readings the sensor can deliver: both thresholds, their neighbours,
\* the middle of the dead band and the two ends of the 8-bit scale
TempVals == {0, HOT_VAL - 1, HOT_VAL, HOT_VAL + 2, COOL_VAL, COOL_VAL + 1, UINT8 - 1}

(* -------------------------------- state -------------------------------- *)

VARIABLES
  pc,               \* position of the CPU in get_rstflr() / main()
  i,                \* counter of the diagnostic busy-wait loops
  now,              \* uint8_t now
  lastMeasureTemp,  \* uint8_t lastMeasureTemp
  lastHotTime,      \* uint8_t lastHotTime
  hot,              \* uint8_t hot (0 or 1)
  btnIsPressed,     \* uint8_t btnIsPressed (0 or 1)
  fanOverride,      \* uint8_t fanOverride
  val,              \* uint8_t val = ADCL (block local, 0 out of its block)
  fan,              \* PORTB0, the fan output
  pullup,           \* PUEB2, the pull-up of the temperature sensor
  adsc,             \* ADCSRA.ADSC, a conversion is in progress
  wde,              \* WDTCSR.WDE
  wdie,             \* WDTCSR.WDIE
  wdif,             \* WDTCSR.WDIF, a watchdog interrupt is pending
  iflag,            \* SREG.I, global interrupt enable
  rstflr,           \* RSTFLR, the set of reset flags that are set
  rstflr_mirror,    \* the .noinit copy of RSTFLR
  waited,           \* time has passed since the last watchdog time-out
  uptime,           \* number of executions of now++ since main() started
  coolT,            \* uptime of the sample that cleared hot, -1 once
                    \* lastHotTime has been written again
  cause,            \* the reset source that started this boot
  prevCause,        \* the reset source that started the boot before
  irqs              \* watchdog interrupts raised in the normal loop of this boot

vars == <<pc, i, now, lastMeasureTemp, lastHotTime, hot, btnIsPressed,
          fanOverride, val, fan, pullup, adsc, wde, wdie, wdif, iflag,
          rstflr, rstflr_mirror, waited, uptime, coolT, cause, prevCause, irqs>>

locals == <<now, lastMeasureTemp, lastHotTime, hot, btnIsPressed, fanOverride, val>>
wdt == <<wde, wdie, wdif>>
boots == <<cause, prevCause>>

DiagPcs == {"diag_off", "diag_on"}
LoopPcs == {"arm", "tick", "measure", "adc_sleep", "adc_poll", "hyst",
            "button", "decide", "idle", "sleep_enter", "sleeping"}
RunPcs == LoopPcs \cup DiagPcs

\* the end of a loop iteration: the fan decision is made, the next tick is
\* not yet counted
EndPcs == {"idle", "sleep_enter", "sleeping"}

(* --------------------------- hardware helpers -------------------------- *)

\* WDT_INT_RESET(): WDTCSR |= _BV(WDIE)|_BV(WDE).  The read-modify-write
\* writes a set WDIF back as one, which clears it; the source notes that
\* setting WDIE also enables global interrupts.
WDT_INT_RESET == wdie' = TRUE /\ wde' = TRUE /\ wdif' = FALSE /\ iflag' = TRUE

\* WDT_TIMEDOUT(): !(WDTCSR & _BV(WDIE))
WDT_TIMEDOUT == ~wdie

\* What a reset of the given cause leaves behind: the I/O registers are at
\* their reset values, the watchdog stays enabled while WDRF is set, RSTFLR
\* gains the flag of the cause (a power-on reset clears the other flags) and
\* the .noinit byte keeps its content.  main()'s locals hold nothing before
\* main() initialises them; they are shown with their initial values.
Reset(flag) ==
  /\ rstflr' = IF flag = "PORF" THEN {"PORF"} ELSE rstflr \cup {flag}
  /\ wde' = ("WDRF" \in rstflr')
  /\ wdie' = FALSE
  /\ wdif' = FALSE
  /\ iflag' = FALSE
  /\ pc' = "init3"
  /\ i' = 0
  /\ now' = 0
  /\ lastMeasureTemp' = 0
  /\ lastHotTime' = LAST_HOT_INIT
  /\ hot' = 0
  /\ btnIsPressed' = 0
  /\ fanOverride' = FAN_OVERRIDE_NONE
  /\ val' = 0
  /\ fan' = FALSE
  /\ pullup' = FALSE
  /\ adsc' = FALSE
  /\ waited' = FALSE
  /\ uptime' = 0
  /\ coolT' = -1
  /\ cause' = flag
  /\ prevCause' = cause
  /\ irqs' = 0
  /\ UNCHANGED rstflr_mirror

\* The state in which a first reset, of the given cause, leaves the device.
InitAfter(flag) ==
  /\ rstflr = {flag}
  /\ rstflr_mirror = {}
  /\ wde = (flag = "WDRF")
  /\ wdie = FALSE
  /\ wdif = FALSE
  /\ iflag = FALSE
  /\ pc = "init3"
  /\ i = 0
  /\ now = 0
  /\ lastMeasureTemp = 0
  /\ lastHotTime = LAST_HOT_INIT
  /\ hot = 0
  /\ btnIsPressed = 0
  /\ fanOverride = FAN_OVERRIDE_NONE
  /\ val = 0
  /\ fan = FALSE
  /\ pullup = FALSE
  /\ adsc = FALSE
  /\ waited = FALSE
  /\ uptime = 0
  /\ coolT = -1
  /\ cause = flag
  /\ prevCause = "none"
  /\ irqs = 0

\* power is applied
Init == InitAfter("PORF")

(* ------------------------------- startup ------------------------------- *)

\* get_rstflr without RSTFLR = 0: the flags of earlier resets stay set
get_rstflr_NoClear ==
  /\ pc = "init3"
  /\ rstflr_mirror' = rstflr
  /\ wde' = TRUE
  /\ wdie' = FALSE
  /\ pc' = "main"
  /\ UNCHANGED <<i, locals, fan, pullup, adsc, wdif, iflag, rstflr, waited, uptime, coolT, boots, irqs>>

\* get_rstflr with wdt_disable() in the place of wdt_enable(WDTO_60MS)
get_rstflr_WdtDisabled ==
  /\ pc = "init3"
  /\ rstflr_mirror' = rstflr
  /\ rstflr' = {}
  /\ wde' = FALSE
  /\ wdie' = FALSE
  /\ pc' = "main"
  /\ UNCHANGED <<i, locals, fan, pullup, adsc, wdif, iflag, waited, uptime, coolT, boots, irqs>>

\* get_rstflr(), section .init3
get_rstflr ==
  /\ pc = "init3"
  /\ rstflr_mirror' = rstflr
  /\ rstflr' = {}
  /\ wde' = TRUE            \* wdt_enable(WDTO_60MS): reset-only mode
  /\ wdie' = FALSE
  /\ pc' = "main"
  /\ UNCHANGED <<i, locals, fan, pullup, adsc, wdif, iflag, waited, uptime, coolT, boots, irqs>>

\* main() up to the test of the reset-cause mirror
MainInit ==
  /\ pc = "main"
  /\ now' = 0
  /\ lastMeasureTemp' = 0
  /\ lastHotTime' = LAST_HOT_INIT
  /\ hot' = 0
  /\ btnIsPressed' = 0
  /\ fanOverride' = FAN_OVERRIDE_NONE
  /\ iflag' = TRUE          \* sei()
  /\ pc' = IF "WDRF" \in rstflr_mirror THEN "diag_off" ELSE "arm"
  /\ i' = 0
  /\ UNCHANGED <<val, fan, pullup, adsc, wdt, rstflr, rstflr_mirror, waited, uptime, coolT, boots, irqs>>

(* --------------------------- diagnostic blink -------------------------- *)

\* for(i=0;i<20000;i++) { WDT_INT_RESET(); _delay_us(100); }
DiagOffDelay ==
  /\ pc = "diag_off"
  /\ i < DIAG_OFF_STEPS
  /\ WDT_INT_RESET
  /\ waited' = TRUE
  /\ i' = i + 1
  /\ UNCHANGED <<pc, locals, fan, pullup, adsc, rstflr, rstflr_mirror, uptime, coolT, boots, irqs>>

\* FAN_ON() after the first busy-wait
DiagFanOn ==
  /\ pc = "diag_off"
  /\ i >= DIAG_OFF_STEPS
  /\ fan' = TRUE
  /\ pc' = "diag_on"
  /\ i' = 0
  /\ UNCHANGED <<locals, pullup, adsc, wdt, iflag, rstflr, rstflr_mirror, waited, uptime, coolT, boots, irqs>>

\* DiagOnDelay whose delay steps do not re-arm the watchdog
DiagOnDelay_NoRearm ==
  /\ pc = "diag_on"
  /\ i < DIAG_ON_STEPS
  /\ waited' = TRUE
  /\ i' = i + 1
  /\ UNCHANGED <<pc, locals, fan, pullup, adsc, wdt, iflag, rstflr, rstflr_mirror, uptime,
                 coolT, boots, irqs>>

\* for(i=0;i<5000;i++) { WDT_INT_RESET(); _delay_us(100); }
DiagOnDelay ==
  /\ pc = "diag_on"
  /\ i < DIAG_ON_STEPS
  /\ WDT_INT_RESET
  /\ waited' = TRUE
  /\ i' = i + 1
  /\ UNCHANGED <<pc, locals, fan, pullup, adsc, rstflr, rstflr_mirror, uptime, coolT, boots, irqs>>

\* DiagFanOff that leaves the blink loop after one round
DiagFanOff_Leaves ==
  /\ pc = "diag_on"
  /\ i >= DIAG_ON_STEPS
  /\ fan' = FALSE
  /\ pc' = "arm"
  /\ i' = 0
  /\ UNCHANGED <<locals, pullup, adsc, wdt, iflag, rstflr, rstflr_mirror, waited, uptime, coolT, boots, irqs>>

\* FAN_OFF() after the second busy-wait, then round the while(1)
DiagFanOff ==
  /\ pc = "diag_on"
  /\ i >= DIAG_ON_STEPS
  /\ fan' = FALSE
  /\ pc' = "diag_off"
  /\ i' = 0
  /\ UNCHANGED <<locals, pullup, adsc, wdt, iflag, rstflr, rstflr_mirror, waited, uptime, coolT, boots, irqs>>

(* ------------------------------ normal loop ---------------------------- *)

\* WDT_INT_RESET() before the while(1)
Arm ==
  /\ pc = "arm"
  /\ WDT_INT_RESET
  /\ pc' = "tick"
  /\ UNCHANGED <<i, locals, fan, pullup, adsc, rstflr, rstflr_mirror, waited, uptime, coolT, boots, irqs>>

\* TickStep that counts a tick in every iteration, pending or not
TickStep_CountAlways ==
  /\ pc = "tick"
  /\ IF WDT_TIMEDOUT
       THEN WDT_INT_RESET
       ELSE UNCHANGED <<wdt, iflag>>
  /\ now' = (now + 1) % UINT8
  /\ uptime' = uptime + 1
  /\ pc' = "measure"
  /\ UNCHANGED <<i, lastMeasureTemp, lastHotTime, hot, btnIsPressed, fanOverride, val,
                 fan, pullup, adsc, rstflr, rstflr_mirror, waited, coolT, boots, irqs>>

\* if(WDT_TIMEDOUT()) { WDT_INT_RESET(); now++; }
TickStep ==
  /\ pc = "tick"
  /\ IF WDT_TIMEDOUT
       THEN /\ WDT_INT_RESET
            /\ now' = (now + 1) % UINT8
            /\ uptime' = uptime + 1
       ELSE UNCHANGED <<wdt, iflag, now, uptime>>
  /\ pc' = "measure"
  /\ UNCHANGED <<i, lastMeasureTemp, lastHotTime, hot, btnIsPressed, fanOverride, val,
                 fan, pullup, adsc, rstflr, rstflr_mirror, waited, coolT, boots, irqs>>

\* MeasureDue with the interval compared by > : a sample every 33 ticks
MeasureDue_Strict(n, last) == Sub8(n, last) > TEMP_MEASURE_INTERVAL

\* (uint8_t)(now - lastMeasureTemp) >= TEMP_MEASURE_INTERVAL
MeasureDue(n, last) == Sub8(n, last) >= TEMP_MEASURE_INTERVAL

\* The test of the measure interval and, when it is due, the sampler up to
\* sleep_mode(): pull-up on, lastMeasureTemp = now, the settling delay, the
\* conversion started and the CPU halted in ADC noise reduction mode.
MeasureStart ==
  /\ pc = "measure"
  /\ IF MeasureDue(now, lastMeasureTemp)
       THEN /\ pullup' = TRUE
            /\ lastMeasureTemp' = now
            /\ waited' = TRUE
            /\ adsc' = TRUE
            /\ pc' = "adc_sleep"
       ELSE /\ pc' = "button"
            /\ UNCHANGED <<pullup, lastMeasureTemp, waited, adsc>>
  /\ UNCHANGED <<i, now, lastHotTime, hot, btnIsPressed, fanOverride, val, fan,
                 wdt, iflag, rstflr, rstflr_mirror, uptime, coolT, boots, irqs>>

\* The conversion ends: ADSC clears and ADC_vect (empty) wakes a halted CPU.
AdcComplete ==
  /\ pc \in {"adc_sleep", "adc_poll"}
  /\ adsc
  /\ adsc' = FALSE
  /\ pc' = "adc_poll"
  /\ UNCHANGED <<i, locals, fan, pullup, wdt, iflag, rstflr, rstflr_mirror, waited, uptime, coolT, boots, irqs>>

\* AdcRead without loop_until_bit_is_clear: ADCL is read as soon as the CPU
\* is awake
AdcRead_NoPoll ==
  /\ pc = "adc_poll"
  /\ \E v \in TempVals : val' = v
  /\ pullup' = FALSE
  /\ adsc' = FALSE
  /\ pc' = "hyst"
  /\ UNCHANGED <<i, now, lastMeasureTemp, lastHotTime, hot, btnIsPressed, fanOverride,
                 fan, wdt, iflag, rstflr, rstflr_mirror, waited, uptime, coolT, boots, irqs>>

\* loop_until_bit_is_clear(ADCSRA, ADSC); val = ADCL; ADC off; pull-up off
AdcRead ==
  /\ pc = "adc_poll"
  /\ ~adsc
  /\ \E v \in TempVals : val' = v
  /\ pullup' = FALSE
  /\ pc' = "hyst"
  /\ UNCHANGED <<i, now, lastMeasureTemp, lastHotTime, hot, btnIsPressed, fanOverride,
                 fan, adsc, wdt, iflag, rstflr, rstflr_mirror, waited, uptime, coolT, boots, irqs>>

\* NextHot with the cool threshold compared by >= : the dead band loses COOL_VAL
NextHot_CoolInclusive(h, v) ==
  IF v >= COOL_VAL THEN 0
  ELSE IF v < HOT_VAL THEN 1
  ELSE h

\* if(val > COOL_VAL) hot = 0; else if(val < HOT_VAL) hot = 1;
NextHot(h, v) ==
  IF v > COOL_VAL THEN 0
  ELSE IF v < HOT_VAL THEN 1
  ELSE h

\* Hysteresis that stamps lastHotTime at every sample, hot or not
Hysteresis_StampAlways ==
  /\ pc = "hyst"
  /\ hot' = NextHot(hot, val)
  /\ lastHotTime' = now
  /\ coolT' = IF hot' # 0 THEN -1 ELSE IF hot # 0 THEN uptime ELSE coolT
  /\ val' = 0
  /\ pc' = "button"
  /\ UNCHANGED <<i, now, lastMeasureTemp, btnIsPressed, fanOverride, fan, pullup, adsc,
                 wdt, iflag, rstflr, rstflr_mirror, waited, uptime, boots, irqs>>

\* the hysteresis comparison and if(hot) lastHotTime = now; val goes out of scope
Hysteresis ==
  /\ pc = "hyst"
  /\ hot' = NextHot(hot, val)
  /\ lastHotTime' = IF hot' # 0 THEN now ELSE lastHotTime
  /\ coolT' = IF hot' # 0 THEN -1 ELSE IF hot # 0 THEN uptime ELSE coolT
  /\ val' = 0
  /\ pc' = "button"
  /\ UNCHANGED <<i, now, lastMeasureTemp, btnIsPressed, fanOverride, fan, pullup, adsc,
                 wdt, iflag, rstflr, rstflr_mirror, waited, uptime, boots, irqs>>

\* NextOverride with the OFF stage left out: ON goes back to NONE
NextOverride_TwoStage(o) ==
  IF o = FAN_OVERRIDE_NONE THEN FAN_OVERRIDE_ON
  ELSE FAN_OVERRIDE_NONE

\* the override that follows o in the cycle of the button
NextOverride(o) ==
  IF o = FAN_OVERRIDE_NONE THEN FAN_OVERRIDE_ON
  ELSE IF o = FAN_OVERRIDE_ON THEN FAN_OVERRIDE_OFF
  ELSE FAN_OVERRIDE_NONE

\* Button whose return to FAN_OVERRIDE_NONE leaves lastHotTime alone
Button_NoRewind(pins) ==
  /\ pc = "button"
  /\ \E pressed \in pins :
       IF pressed = 1 /\ btnIsPressed = 0
         THEN /\ btnIsPressed' = 1
              /\ fanOverride' = NextOverride(fanOverride)
              /\ fan' = IF fanOverride = FAN_OVERRIDE_NONE THEN TRUE
                        ELSE IF fanOverride = FAN_OVERRIDE_ON THEN FALSE
                        ELSE fan
         ELSE /\ btnIsPressed' = IF pressed = 0 /\ btnIsPressed # 0 THEN 0 ELSE btnIsPressed
              /\ UNCHANGED <<fanOverride, fan>>
  /\ pc' = "decide"
  /\ UNCHANGED <<i, now, lastMeasureTemp, lastHotTime, hot, val, pullup, adsc, wdt, iflag,
                 rstflr, rstflr_mirror, waited, uptime, coolT, boots, irqs>>

\* The button poll; pressed is BTN_ISPRESSED() as this poll reads it.
Button(pins) ==
  /\ pc = "button"
  /\ \E pressed \in pins :
       IF pressed = 1 /\ btnIsPressed = 0
         THEN /\ btnIsPressed' = 1
              /\ fanOverride' = NextOverride(fanOverride)
              /\ fan' = IF fanOverride = FAN_OVERRIDE_NONE THEN TRUE
                        ELSE IF fanOverride = FAN_OVERRIDE_ON THEN FALSE
                        ELSE fan
              /\ IF fanOverride \notin {FAN_OVERRIDE_NONE, FAN_OVERRIDE_ON} /\ hot = 0
                   THEN /\ lastHotTime' = Sub8(now, FAN_COOL_TIME)
                        /\ coolT' = -1
                   ELSE UNCHANGED <<lastHotTime, coolT>>
         ELSE /\ btnIsPressed' = IF pressed = 0 /\ btnIsPressed # 0 THEN 0 ELSE btnIsPressed
              /\ UNCHANGED <<fanOverride, fan, lastHotTime, coolT>>
  /\ pc' = "decide"
  /\ UNCHANGED <<i, now, lastMeasureTemp, hot, val, pullup, adsc, wdt, iflag,
                 rstflr, rstflr_mirror, waited, uptime, boots, irqs>>

\* FanWanted with the age compared by <= : one tick more of cool-down
FanWanted_Inclusive(h, n, last) == h # 0 \/ Sub8(n, last) <= FAN_COOL_TIME

\* hot || (uint8_t)(now - lastHotTime) < FAN_COOL_TIME
FanWanted(h, n, last) == h # 0 \/ Sub8(n, last) < FAN_COOL_TIME

\* DecideActive without the test of the override: the decision always runs
DecideActive_Always(o) == TRUE

\* if(fanOverride == FAN_OVERRIDE_NONE): the decision runs in automatic mode
DecideActive(o) == o = FAN_OVERRIDE_NONE

\* Decide that turns the fan off without rewinding lastHotTime
Decide_NoRewind ==
  /\ pc = "decide"
  /\ IF DecideActive(fanOverride)
       THEN fan' = FanWanted(hot, now, lastHotTime)
       ELSE UNCHANGED fan
  /\ pc' = "idle"
  /\ UNCHANGED <<i, now, lastMeasureTemp, lastHotTime, hot, btnIsPressed, fanOverride, val,
                 pullup, adsc, wdt, iflag, rstflr, rstflr_mirror, waited, uptime, coolT,
                 boots, irqs>>

\* the fan decision and output
Decide ==
  /\ pc = "decide"
  /\ IF DecideActive(fanOverride)
       THEN IF FanWanted(hot, now, lastHotTime)
              THEN /\ fan' = TRUE
                   /\ UNCHANGED <<lastHotTime, coolT>>
              ELSE /\ fan' = FALSE
                   /\ lastHotTime' = Sub8(now, FAN_COOL_TIME)
                   /\ coolT' = -1
       ELSE UNCHANGED <<fan, lastHotTime, coolT>>
  /\ pc' = "idle"
  /\ UNCHANGED <<i, now, lastMeasureTemp, hot, btnIsPressed, fanOverride, val, pullup,
                 adsc, wdt, iflag, rstflr, rstflr_mirror, waited, uptime, boots, irqs>>

\* IdleTest without the cli(): the test is made with interrupts enabled
IdleTest_NoCli ==
  /\ pc = "idle"
  /\ pc' = IF WDT_TIMEDOUT THEN "tick" ELSE "sleep_enter"
  /\ UNCHANGED <<i, locals, fan, pullup, adsc, wdt, iflag, rstflr, rstflr_mirror, waited,
                 uptime, coolT, boots, irqs>>

\* cli(); if(!WDT_TIMEDOUT()) ... ; with a tick pending the sleep is skipped
\* and the sei() after the if ends the iteration
IdleTest ==
  /\ pc = "idle"
  /\ IF WDT_TIMEDOUT
       THEN /\ iflag' = TRUE
            /\ pc' = "tick"
       ELSE /\ iflag' = FALSE
            /\ pc' = "sleep_enter"
  /\ UNCHANGED <<i, locals, fan, pullup, adsc, wdt, rstflr, rstflr_mirror, waited, uptime, coolT, boots, irqs>>

\* SleepCpu without the sei() before sleep_cpu(): the CPU halts with
\* interrupts disabled
SleepCpu_NoSei ==
  /\ pc = "sleep_enter"
  /\ IF wdif
       THEN /\ iflag' = TRUE
            /\ wdif' = FALSE
            /\ pc' = "tick"
            /\ UNCHANGED waited
       ELSE /\ pc' = "sleeping"
            /\ waited' = TRUE
            /\ UNCHANGED <<wdif, iflag>>
  /\ UNCHANGED <<i, locals, fan, pullup, adsc, wde, wdie, rstflr, rstflr_mirror, uptime,
                 coolT, boots, irqs>>

\* sei(); sleep_cpu(): the instruction after sei() runs before any interrupt,
\* so the CPU halts, and an interrupt left pending by the cli() wakes it at once
\* (sleep_disable(); sei(); and round the loop)
SleepCpu ==
  /\ pc = "sleep_enter"
  /\ iflag' = TRUE
  /\ IF wdif
       THEN /\ wdif' = FALSE
            /\ pc' = "tick"
            /\ UNCHANGED waited
       ELSE /\ pc' = "sleeping"
            /\ waited' = TRUE
            /\ UNCHANGED wdif
  /\ UNCHANGED <<i, locals, fan, pullup, adsc, wde, wdie, rstflr, rstflr_mirror, uptime, coolT, boots, irqs>>

(* --------------------------- hardware events --------------------------- *)

\* where the CPU continues when an interrupt wakes it
Wake(p) ==
  IF p = "sleeping" THEN "tick"
  ELSE IF p = "adc_sleep" THEN "adc_poll"
  ELSE p

\* A watchdog time-out.  With WDIE set the time-out clears WDIE and raises the
\* interrupt: WDT_vect (empty) runs if interrupts are enabled, waking a halted
\* CPU, and stays pending in WDIF otherwise.  With WDIE clear the watchdog is
\* in reset mode and resets the device.
WdtTimeout ==
  /\ wde
  /\ waited
  /\ IF wdie
       THEN /\ wdie' = FALSE
            /\ wdif' = ~iflag
            /\ pc' = IF iflag THEN Wake(pc) ELSE pc
            /\ waited' = FALSE
            /\ irqs' = IF pc \in LoopPcs THEN irqs + 1 ELSE irqs
            /\ UNCHANGED <<i, locals, fan, pullup, adsc, wde, iflag, rstflr,
                           rstflr_mirror, uptime, coolT, boots>>
       ELSE Reset("WDRF")

\* The CPU makes no progress for a watchdog period (a hang, a slow clock).
Stall ==
  /\ ~waited
  /\ waited' = TRUE
  /\ UNCHANGED <<pc, i, locals, fan, pullup, adsc, wdt, iflag, rstflr, rstflr_mirror,
                 uptime, coolT, boots, irqs>>

\* power is removed and applied again
PowerOnReset == Reset("PORF")

\* the reset pin is pulled low
ExternalReset == Reset("EXTRF")

(* ----------------------------- specifications -------------------------- *)

\* the levels the button poll can read
ButtonPins == {0, 1}

\* Normal operation after power-on: the loop body is short against the
\* watchdog period, the button is operated.
Next ==
  \/ get_rstflr
  \/ MainInit
  \/ Arm
  \/ (uptime < MaxUptime /\ TickStep)
  \/ MeasureStart
  \/ AdcComplete
  \/ AdcRead
  \/ Hysteresis
  \/ Button(ButtonPins)
  \/ Decide
  \/ IdleTest
  \/ SleepCpu
  \/ WdtTimeout

Spec == Init /\ [][Next]_vars

\* Automatic operation: the button is never pressed; the boot follows a
\* power-on or an external reset.
InitAuto == InitAfter("PORF") \/ InitAfter("EXTRF")

NextAuto ==
  \/ get_rstflr
  \/ MainInit
  \/ Arm
  \/ (uptime < MaxUptime /\ TickStep)
  \/ MeasureStart
  \/ AdcComplete
  \/ AdcRead
  \/ Hysteresis
  \/ Button({0})
  \/ Decide
  \/ IdleTest
  \/ SleepCpu
  \/ WdtTimeout

SpecAuto == InitAuto /\ [][NextAuto]_vars

\* Everything: stalls of the CPU, every reset source, the diagnostic loop.
NextStall ==
  \/ get_rstflr
  \/ MainInit
  \/ DiagOffDelay
  \/ DiagFanOn
  \/ DiagOnDelay
  \/ DiagFanOff
  \/ Arm
  \/ (uptime < MaxStallUptime /\ TickStep)
  \/ MeasureStart
  \/ AdcComplete
  \/ AdcRead
  \/ Hysteresis
  \/ Button(ButtonPins)
  \/ Decide
  \/ IdleTest
  \/ SleepCpu
  \/ WdtTimeout
  \/ Stall
  \/ PowerOnReset
  \/ ExternalReset

SpecStall == Init /\ [][NextStall]_vars

\* The normal loop with fairness: the CPU executes the next step of the
\* program whenever it is not halted, the watchdog times out once time has
\* gone by, and a started ADC conversion ends.
CpuStep ==
  \/ get_rstflr
  \/ MainInit
  \/ Arm
  \/ (uptime < MaxFairUptime /\ TickStep)
  \/ MeasureStart
  \/ AdcRead
  \/ Hysteresis
  \/ Button(ButtonPins)
  \/ Decide
  \/ IdleTest
  \/ SleepCpu

NextFair ==
  \/ CpuStep
  \/ AdcComplete
  \/ WdtTimeout

Fairness ==
  /\ WF_vars(CpuStep)
  /\ WF_vars(AdcComplete)
  /\ WF_vars(WdtTimeout)

SpecFair == Init /\ [][NextFair]_vars /\ Fairness

\* The boot after a watchdog reset, in which the watchdog runs on the time
\* that the delay steps of the diagnostic loop let go by and nothing stalls.
InitDiag == InitAfter("WDRF")

NextDiag ==
  \/ get_rstflr
  \/ MainInit
  \/ DiagOffDelay
  \/ DiagFanOn
  \/ DiagOnDelay
  \/ DiagFanOff
  \/ WdtTimeout

SpecDiag == InitDiag /\ [][NextDiag]_vars

\* The age arithmetic on its own: a time stamp X is recorded from now
\* (lastMeasureTemp = now, lastHotTime = now) at any value of the counter,
\* and the counter is then advanced tick by tick by now++ while the stamp is
\* left alone, for as long as fewer than UINT8 ticks have gone by.  uptime
\* counts the ticks since the stamp was recorded.
InitAge ==
  /\ now \in 0..(UINT8 - 1)
  /\ lastMeasureTemp = now
  /\ lastHotTime = now
  /\ uptime = 0
  /\ pc = "age"
  /\ i = 0
  /\ hot = 0
  /\ btnIsPressed = 0
  /\ fanOverride = FAN_OVERRIDE_NONE
  /\ val = 0
  /\ fan = FALSE
  /\ pullup = FALSE
  /\ adsc = FALSE
  /\ wde = TRUE
  /\ wdie = TRUE
  /\ wdif = FALSE
  /\ iflag = TRUE
  /\ rstflr = {}
  /\ rstflr_mirror = {"PORF"}
  /\ waited = FALSE
  /\ coolT = -1
  /\ cause = "PORF"
  /\ prevCause = "none"
  /\ irqs = 0

\* now++ on a uint8_t
AgeTick ==
  /\ pc = "age"
  /\ uptime < UINT8 - 1
  /\ now' = (now + 1) % UINT8
  /\ uptime' = uptime + 1
  /\ UNCHANGED <<pc, i, lastMeasureTemp, lastHotTime, hot, btnIsPressed, fanOverride, val,
                 fan, pullup, adsc, wdt, iflag, rstflr, rstflr_mirror, waited, coolT,
                 boots, irqs>>

NextAge == AgeTick

SpecAge == InitAge /\ [][NextAge]_vars

(* -------------------------------- claims ------------------------------- *)

\* C1: hysteresis.  A sample <= COOL_VAL leaves a true hot true, hot turns
\* false only in the hysteresis step of a sample >= COOL_VAL + 1, and a
\* sample in the dead band HOT_VAL..COOL_VAL leaves a false hot false.
C1_Hysteresis ==
  [][ /\ (pc = "hyst" /\ hot = 1 /\ val <= COOL_VAL => hot' = 1)
      /\ (hot = 1 /\ hot' = 0 => pc = "hyst" /\ val >= COOL_VAL + 1)
      /\ (pc = "hyst" /\ hot = 0 /\ val >= HOT_VAL /\ val <= COOL_VAL => hot' = 0)
    ]_vars

\* a dead-band sample at the upper threshold arrives while hot is true,
\* after earlier samples
C1_Witness ==
  pc = "hyst" /\ hot = 1 /\ val = COOL_VAL /\ uptime >= 2 * TEMP_MEASURE_INTERVAL

\* C2: while an override is engaged the fan output is the forced value, at
\* every step of the normal loop, whatever hot and the age of lastHotTime.
C2_OverrideForcesFan ==
  pc \in LoopPcs =>
    /\ (fanOverride = FAN_OVERRIDE_ON => fan)
    /\ (fanOverride = FAN_OVERRIDE_OFF => ~fan)

\* the fan is forced off with a hot sensor, after the decision step
C2_Witness ==
  pc = "idle" /\ fanOverride = FAN_OVERRIDE_OFF /\ hot = 1 /\ ~fan

\* C3: fanOverride is one of NONE, ON, OFF; it changes only in a button step
\* that records a press edge (btnIsPressed 0 -> 1), by one step of the cycle
\* NONE -> ON -> OFF -> NONE, and every press edge makes that step.
C3_OverrideCycle ==
  /\ [](fanOverride \in {FAN_OVERRIDE_NONE, FAN_OVERRIDE_ON, FAN_OVERRIDE_OFF})
  /\ [][ /\ (fanOverride' # fanOverride =>
               /\ pc = "button"
               /\ btnIsPressed = 0
               /\ btnIsPressed' = 1
               /\ <<fanOverride, fanOverride'>> \in
                    { <<FAN_OVERRIDE_NONE, FAN_OVERRIDE_ON>>,
                      <<FAN_OVERRIDE_ON, FAN_OVERRIDE_OFF>>,
                      <<FAN_OVERRIDE_OFF, FAN_OVERRIDE_NONE>> })
         /\ (btnIsPressed = 0 /\ btnIsPressed' = 1 => fanOverride' # fanOverride)
         /\ (btnIsPressed = 1 /\ btnIsPressed' = 1 => fanOverride' = fanOverride)
       ]_vars

\* the third press has wrapped the cycle to NONE and the button is still
\* held at the next poll
C3_Witness ==
  pc = "button" /\ btnIsPressed = 1 /\ fanOverride = FAN_OVERRIDE_NONE
\* C4: cool-down.  With the button untouched, after the sample at tick T
\* cleared hot and while no later sample has set it again, the decision step
\* of every iteration leaves the fan ON before tick T + FAN_COOL_TIME and OFF
\* from that tick on.
C4_CoolDownFromTransition ==
  [][ pc = "decide" /\ coolT >= 0 /\ hot = 0 =>
        (fan' <=> uptime < coolT + FAN_COOL_TIME) ]_vars

\* C5: power-on grace.  After a boot that is not a watchdog reset and with the
\* button untouched, main() starts with lastHotTime = (0 - FAN_COOL_TIME) + 31
\* and the fan is ON at the end of every iteration of the first 31 ticks.
C5_PowerOnGrace ==
  /\ (pc = "arm" => lastHotTime = (UINT8 - FAN_COOL_TIME) + 31)
  /\ (pc \in EndPcs /\ uptime <= 30 => fan /\ now = uptime)

\* the last iteration of the grace period has ended with the fan on, after
\* an external reset
C5_Witness ==
  pc = "sleeping" /\ uptime = 30 /\ fan /\ hot = 0 /\ cause = "EXTRF"

\* C6: in automatic mode the fan output at the end of every iteration is ON
\* exactly if hot is set or the age of lastHotTime is below FAN_COOL_TIME.
C6_FanFunction ==
  pc \in EndPcs /\ fanOverride = FAN_OVERRIDE_NONE =>
    (fan <=> (hot = 1 \/ (now - lastHotTime) % 256 < FAN_COOL_TIME))

\* an iteration of the cool-down has ended: the sensor is cool, the fan still
\* on, and now has wrapped since the last hot sample
C6_Witness ==
  /\ pc = "idle"
  /\ fanOverride = FAN_OVERRIDE_NONE
  /\ hot = 0
  /\ fan
  /\ now < lastHotTime
  /\ uptime > UINT8
\* C7: the diagnostic path is terminal.  A boot whose mirror holds WDRF goes
\* to the blink loop, and the blink loop is left by a reset only: no loop
\* variable changes in it, no sample is taken, and the fan output is fixed by
\* the phase of the blink alone.
C7_DiagnosticTerminal ==
  /\ [](pc \in DiagPcs =>
          /\ "WDRF" \in rstflr_mirror
          /\ fan = (pc = "diag_on")
          /\ ~adsc /\ ~pullup /\ val = 0
          /\ now = 0 /\ uptime = 0 /\ hot = 0 /\ btnIsPressed = 0
          /\ fanOverride = FAN_OVERRIDE_NONE)
  /\ [][ /\ (pc = "main" /\ "WDRF" \in rstflr_mirror => pc' \notin LoopPcs)
         /\ (pc \in DiagPcs =>
               \/ pc' = "init3"
               \/ /\ pc' \in DiagPcs
                  /\ UNCHANGED <<now, hot, lastMeasureTemp, lastHotTime,
                                 btnIsPressed, fanOverride>>)
       ]_vars

\* the ON phase of the blink is complete and a watchdog tick is pending
C7_Witness ==
  pc = "diag_on" /\ i = DIAG_ON_STEPS /\ fan /\ ~wdie

\* C8 as stated: a boot runs the diagnostic loop exactly if the reset that
\* started it was a watchdog reset.
C8_DiagIffWatchdogReset ==
  pc \in RunPcs => (pc \in DiagPcs <=> cause = "WDRF")

\* C8 as amended: a boot runs the diagnostic loop exactly if RSTFLR held
\* WDRF when the startup hook ran.  The hook copies RSTFLR to the mirror and
\* clears it, so a reset that arrives after the hook has run leaves its own
\* flag alone in RSTFLR, and a power-on reset clears the other flags.
C8_DiagIffFlagAtHook ==
  /\ [](pc # "init3" =>
          /\ rstflr = {}
          /\ cause \in rstflr_mirror
          /\ (cause = "PORF" => rstflr_mirror = {"PORF"}))
  /\ [](pc \in RunPcs => (pc \in DiagPcs <=> "WDRF" \in rstflr_mirror))
  /\ [][ /\ (pc = "init3" /\ pc' = "main" => rstflr_mirror' = rstflr)
         /\ (pc # "init3" /\ pc' = "init3" => rstflr' = {cause'})
       ]_vars

\* the normal loop runs after an external reset that followed a watchdog reset
C8_Witness ==
  pc \in LoopPcs /\ cause = "EXTRF" /\ prevCause = "WDRF" /\ rstflr_mirror = {"EXTRF"}

\* C9: hang detection.  The watchdog is enabled from the startup hook on and
\* is in reset mode until main() arms it; in the normal loop only the arming
\* before the loop and the tick step set WDIE again, so a time-out that finds
\* WDIE still clear resets the device, and the boot after a watchdog reset
\* runs the diagnostic loop.
C9_HangDetection ==
  /\ [](pc # "init3" => wde)
  /\ [](pc \in {"main", "arm"} => ~wdie)
  /\ [](pc \in RunPcs /\ cause = "WDRF" => pc \in DiagPcs)
  /\ [][ /\ (~wdie /\ wdie' => pc \in {"arm", "tick"} \cup DiagPcs)
         /\ (pc \in LoopPcs \cup {"main"} /\ ~wdie /\ WdtTimeout =>
               pc' = "init3" /\ cause' = "WDRF" /\ "WDRF" \in rstflr')
       ]_vars

\* the diagnostic loop runs in the boot after a watchdog reset that ended
\* a boot started by power-on
C9_Witness ==
  pc \in DiagPcs /\ cause = "WDRF" /\ prevCause = "PORF" /\ i > 0

\* C10: hot changes in the hysteresis step of a sample only; a sample is
\* started exactly in the iteration whose tick brings the age of
\* lastMeasureTemp to TEMP_MEASURE_INTERVAL, which is every 32nd tick from
\* tick 32 on, whatever the override and the button do.
C10_Sampling ==
  /\ [](/\ (now - lastMeasureTemp) % 256 <= TEMP_MEASURE_INTERVAL
        /\ ((now - lastMeasureTemp) % 256 = TEMP_MEASURE_INTERVAL => pc = "measure")
        /\ (pc \in {"adc_sleep", "adc_poll", "hyst"} => lastMeasureTemp = now))
  /\ [][ /\ (hot' # hot => pc = "hyst")
         /\ (pc = "measure" =>
               (pc' = "adc_sleep" <=>
                  (now - lastMeasureTemp) % 256 = TEMP_MEASURE_INTERVAL))
         /\ (lastMeasureTemp' # lastMeasureTemp =>
               /\ pc = "measure"
               /\ lastMeasureTemp' = now
               /\ (now - lastMeasureTemp) % 256 = TEMP_MEASURE_INTERVAL
               /\ uptime >= TEMP_MEASURE_INTERVAL
               /\ uptime % TEMP_MEASURE_INTERVAL = 0
               /\ now = uptime % 256)
       ]_vars

\* the sample after the wrap of now is in hand while the override forces
\* the fan and the button is held
C10_Witness ==
  /\ pc = "hyst"
  /\ uptime = UINT8 + TEMP_MEASURE_INTERVAL
  /\ now = TEMP_MEASURE_INTERVAL
  /\ fanOverride = FAN_OVERRIDE_ON
  /\ btnIsPressed = 1

\* C11: the age of a time stamp is (now - X) mod 256: it lies in 0..255 and
\* is the number of ticks that went by since X was recorded from now, for
\* every start value of the counter and every number of ticks below 256,
\* also after now has wrapped past 255; the comparisons made on it (cool-down
\* not yet over, sample due) therefore follow the true number of ticks.
C11_AgeIsElapsedTicks ==
  pc = "age" =>
    /\ Sub8(now, lastHotTime) = uptime
    /\ Sub8(now, lastMeasureTemp) = uptime
    /\ Sub8(now, lastHotTime) \in 0..(UINT8 - 1)
    /\ (FanWanted(0, now, lastHotTime) <=> uptime < FAN_COOL_TIME)
    /\ (MeasureDue(now, lastMeasureTemp) <=> uptime >= TEMP_MEASURE_INTERVAL)

\* the stamp 254 was recorded, four ticks went by and now has wrapped to 2
C11_Witness ==
  pc = "age" /\ lastHotTime = 254 /\ now = 2 /\ uptime = 4 /\ Sub8(now, lastHotTime) = 4

\* C12: the diagnostic loop is entered with the fan OFF; the fan is OFF for
\* exactly DIAG_OFF_STEPS delay steps, then ON for exactly DIAG_ON_STEPS
\* delay steps, and so on for ever; every delay step leaves WDIE and WDE
\* set, so every watchdog time-out in the loop finds WDIE set and none of
\* them resets the device.
C12_DiagBlink ==
  [][ /\ (pc = "main" /\ pc' # "main" => pc' = "diag_off" /\ ~fan' /\ i' = 0)
      /\ (pc \in DiagPcs => (fan <=> pc = "diag_on") /\ wde /\ pc' \in DiagPcs)
      /\ (pc \in DiagPcs /\ i' # i =>
            \/ i' = i + 1 /\ pc' = pc /\ fan' = fan /\ wdie' /\ wde'
            \/ i' = 0 /\ pc' # pc)
      /\ (pc = "diag_off" /\ pc' = "diag_on" => i = DIAG_OFF_STEPS /\ fan')
      /\ (pc = "diag_on" /\ pc' = "diag_off" => i = DIAG_ON_STEPS /\ ~fan')
      /\ (pc \in DiagPcs /\ waited /\ ~waited' => wdie /\ ~wdie' /\ pc' = pc)
    ]_vars

\* the OFF phase has run its DIAG_OFF_STEPS delay steps, the watchdog has
\* timed out after the last of them and the device is still in the loop
C12_Witness ==
  pc = "diag_off" /\ i = DIAG_OFF_STEPS /\ ~fan /\ wde /\ ~wdie /\ ~waited

\* C13: tick accounting.  Outside a reset, now changes only in the tick step
\* at the top of an iteration, by +1 mod 256, only when WDIE is clear, and
\* that step sets WDIE again; WDIE is set again in the loop by no other
\* step.  The watchdog interrupts raised in the loop since it was armed
\* number the increments of now, plus one while a tick is pending: each is
\* counted once, wherever in the iteration it fired.
C13_TickAccounting ==
  [][ /\ (now' # now /\ pc' # "init3" =>
            /\ pc = "tick" /\ pc' = "measure"
            /\ ~wdie /\ wdie' /\ wde'
            /\ now' = (now + 1) % UINT8)
      /\ (pc \in LoopPcs \ {"arm"} /\ ~wdie /\ wdie' =>
            pc = "tick" /\ now' = (now + 1) % UINT8)
      /\ (pc \in LoopPcs =>
            /\ now = uptime % UINT8
            /\ irqs = uptime + (IF wdie \/ pc = "arm" THEN 0 ELSE 1))
    ]_vars

\* a tick fired in the loop body of an iteration that took a sample and
\* waits to be counted
C13_Witness ==
  /\ pc = "button"
  /\ ~wdie
  /\ lastMeasureTemp = now
  /\ now = TEMP_MEASURE_INTERVAL
  /\ irqs = uptime + 1

\* C14: no lost wake-up.  Between the test for a pending tick and the sleep
\* instruction interrupts are disabled, so a tick that fires there is held
\* pending; the CPU is never asleep in power-down with a tick pending; a
\* tick held pending ends the sleep at once and a tick during the sleep
\* wakes the CPU; a tick pending at the test makes the loop skip the sleep;
\* and the idle step ends with interrupts enabled.
C14_NoLostWakeup ==
  [][ /\ (pc = "sleep_enter" => ~iflag /\ (wdif <=> ~wdie))
      /\ (pc = "sleeping" => iflag /\ wdie /\ ~wdif)
      /\ (pc = "sleep_enter" /\ ~wdie /\ pc' \notin {"sleep_enter", "init3"} => pc' = "tick")
      /\ (pc = "sleeping" /\ pc' \notin {"sleeping", "init3"} => pc' = "tick" /\ ~wdie')
      /\ (pc = "idle" /\ ~wdie /\ pc' \notin {"idle", "init3"} => pc' = "tick")
      /\ (pc \in EndPcs /\ pc' = "tick" => iflag' /\ ~wdif')
    ]_vars

\* a tick has fired after the test and before the sleep instruction
C14_Witness ==
  pc = "sleep_enter" /\ ~iflag /\ wdif /\ ~wdie /\ uptime > 0

\* C15: no stale re-trigger.  Once now has left the power-on grace period, a
\* step that turns the fan from OFF to ON and leaves the override at NONE is
\* a fan decision taken with hot true; the age of lastHotTime wrapping round
\* never turns the fan on.
C15_NoStaleRetrigger ==
  [][ ~fan /\ fan' /\ fanOverride' = FAN_OVERRIDE_NONE
        /\ uptime >= LAST_HOT_INIT + FAN_COOL_TIME - UINT8
      => pc = "decide" /\ hot = 1 ]_vars

\* the fan is still off in automatic mode with a cold sensor more than 256
\* ticks after the grace period ended, the button being held since the
\* press that ended an override
C15_Witness ==
  /\ pc = "idle"
  /\ fanOverride = FAN_OVERRIDE_NONE
  /\ btnIsPressed = 1
  /\ hot = 0
  /\ ~fan
  /\ uptime > UINT8 + TEMP_MEASURE_INTERVAL

\* C16: return to automatic.  The button step that moves fanOverride from
\* OFF to NONE rewinds lastHotTime to now - FAN_COOL_TIME when hot is false
\* and leaves the fan off, and the fan decision that follows in the same
\* iteration keeps the fan off; when hot is true that decision turns the
\* fan on.
C16_ReturnToAutomatic ==
  [][ /\ (fanOverride = FAN_OVERRIDE_OFF /\ fanOverride' # FAN_OVERRIDE_OFF =>
            /\ pc = "button" /\ pc' = "decide"
            /\ fanOverride' = FAN_OVERRIDE_NONE
            /\ hot' = hot /\ now' = now /\ btnIsPressed = 0 /\ btnIsPressed' = 1
            /\ ~fan /\ ~fan'
            /\ (hot = 0 => lastHotTime' = (now - FAN_COOL_TIME) % UINT8))
      /\ (pc = "decide" /\ pc' = "idle" /\ fanOverride = FAN_OVERRIDE_NONE =>
            /\ (hot = 0 /\ lastHotTime = (now - FAN_COOL_TIME) % UINT8 => ~fan')
            /\ (hot = 1 => fan'))
    ]_vars

\* the iteration of a return to automatic ends with the fan off, the
\* override having been engaged and cycled while the sensor was cold
C16_Witness ==
  /\ pc = "idle"
  /\ fanOverride = FAN_OVERRIDE_NONE
  /\ btnIsPressed = 1
  /\ hot = 0
  /\ ~fan
  /\ lastHotTime = (now - FAN_COOL_TIME) % UINT8
  /\ uptime > FAN_COOL_TIME

\* C17: the sampler leaves the wait for the conversion, and reads ADCL, only
\* with ADSC clear: a CPU woken from the ADC sleep by the watchdog tick stays
\* in the poll while ADSC is set; that tick is left pending by every step up
\* to the tick step of the next iteration, which counts it; and the pull-up
\* is on exactly from the start of the sampling step to the read.
C17_ReadAfterConversion ==
  [][ /\ (pc = "adc_poll" /\ pc' = "hyst" => ~adsc /\ pullup /\ ~pullup')
      /\ (pc = "adc_poll" /\ adsc => pc' \in {"adc_poll", "init3"})
      /\ (pc = "adc_sleep" /\ wdie /\ ~wdie' /\ pc' # "init3" =>
            pc' = "adc_poll" /\ adsc' = adsc /\ now' = now /\ val' = val)
      /\ (pc \in {"adc_poll", "hyst", "button", "decide", "idle"} /\ ~wdie /\ pc' # "init3" =>
            ~wdie' /\ now' = now)
      /\ (pc = "tick" /\ ~wdie /\ pc' = "measure" => wdie' /\ now' = (now + 1) % UINT8)
      /\ (pc = "measure" /\ pc' = "adc_sleep" => ~pullup /\ pullup' /\ adsc')
      /\ (pc \in LoopPcs =>
            /\ (pullup <=> pc \in {"adc_sleep", "adc_poll"})
            /\ (adsc => pc \in {"adc_sleep", "adc_poll"}))
    ]_vars

\* the watchdog tick has woken the CPU from the ADC sleep and the conversion
\* is still running
C17_Witness ==
  pc = "adc_poll" /\ adsc /\ ~wdie /\ pullup /\ irqs = uptime + 1

\* C18 as stated: lastHotTime is changed only by the sampling step and by
\* the button step; the fan decision step, the tick step and the idle step
\* leave it unchanged.
C18_OnlySamplerAndButton ==
  [][ lastHotTime' # lastHotTime => pc \in {"hyst", "button"} ]_vars

\* C18: lastHotTime is changed only by the sampling step, which sets it to
\* now when hot is true after the sample, by the button step that returns
\* fanOverride from OFF to NONE while hot is false, and by the fan decision
\* step that turns or keeps the fan off in automatic mode; the last two set
\* it to now - FAN_COOL_TIME.  Every other step leaves it unchanged.
C18_LastHotTimeWriters ==
  [][ lastHotTime' # lastHotTime =>
        \/ pc = "hyst" /\ hot' = 1 /\ lastHotTime' = now
        \/ /\ pc = "button"
           /\ fanOverride = FAN_OVERRIDE_OFF /\ fanOverride' = FAN_OVERRIDE_NONE
           /\ hot = 0
           /\ lastHotTime' = (now - FAN_COOL_TIME) % UINT8
        \/ /\ pc = "decide"
           /\ fanOverride = FAN_OVERRIDE_NONE
           /\ hot = 0
           /\ ~fan'
           /\ lastHotTime' = (now - FAN_COOL_TIME) % UINT8
    ]_vars

\* the fan decision has just rewound lastHotTime: the fan is off in
\* automatic mode past the grace period and the age is FAN_COOL_TIME again
C18_Witness ==
  /\ pc = "idle"
  /\ fanOverride = FAN_OVERRIDE_NONE
  /\ btnIsPressed = 0
  /\ ~fan
  /\ lastHotTime = (now - FAN_COOL_TIME) % UINT8
  /\ lastHotTime # LAST_HOT_INIT
  /\ uptime = TEMP_MEASURE_INTERVAL

\* C20: at the end of every loop iteration the age of the last sample is
\* below TEMP_MEASURE_INTERVAL; and when fanOverride is NONE the age of
\* lastHotTime is at most FAN_COOL_TIME, and is FAN_COOL_TIME exactly when
\* the fan is off.
C20_EndOfIteration ==
  pc \in EndPcs =>
    /\ Sub8(now, lastMeasureTemp) < TEMP_MEASURE_INTERVAL
    /\ (fanOverride = FAN_OVERRIDE_NONE =>
          /\ Sub8(now, lastHotTime) <= FAN_COOL_TIME
          /\ (Sub8(now, lastHotTime) = FAN_COOL_TIME <=> ~fan))

\* an iteration ends in automatic mode with the fan off after now has
\* wrapped, and another ends with the fan on in its cool-down
C20_Witness ==
  /\ pc = "sleeping"
  /\ fanOverride = FAN_OVERRIDE_NONE
  /\ uptime > UINT8
  /\ now < lastHotTime
  /\ \/ ~fan /\ Sub8(now, lastHotTime) = FAN_COOL_TIME
     \/ fan /\ hot = 0 /\ Sub8(now, lastHotTime) = FAN_COOL_TIME - 1

\* C19: progress.  Under fairness the wait for the conversion ends with the
\* sample read, the power-down sleep ends with the next tick step, every
\* iteration that has started reaches its end and is followed by another,
\* now advances tick after tick up to the bound of the model, and each
\* sample that falls due below the bound is taken.
C19_Progress ==
  /\ (pc \in {"adc_sleep", "adc_poll"}) ~> (pc = "hyst")
  /\ (pc = "sleeping") ~> (pc = "tick")
  /\ (pc = "measure") ~> (pc = "idle")
  /\ (pc \in EndPcs /\ uptime < MaxFairUptime) ~> (pc = "measure")
  /\ <>(uptime = MaxFairUptime)
  /\ \A k \in 1..(MaxFairUptime \div TEMP_MEASURE_INTERVAL) :
       <>(pc = "hyst" /\ uptime = k * TEMP_MEASURE_INTERVAL)

\* the CPU is asleep in power-down after a second sample was taken, and
\* only a watchdog tick can wake it
C19_Witness ==
  /\ pc = "sleeping"
  /\ wdie
  /\ waited
  /\ lastMeasureTemp = 2 * TEMP_MEASURE_INTERVAL
  /\ uptime > 2 * TEMP_MEASURE_INTERVAL
====
